---- MODULE Spec2Model ----
(***************************************************************************)
(* Phrase mining over an integer-encoded corpus: the greedy seed-and-      *)
(* extend miner (GME, src/corpus_miner.cpp) and the contiguous PrefixSpan  *)
(* miner (CPS, src/prefixspan/corpus_miner.cpp).                           *)
(*                                                                         *)
(* Document ids, token positions and token ids are 0-based as in the       *)
(* source; TLA+ sequences are 1-based, so docs[d + 1][p + 1] is the        *)
(* source's docs[d][p].                                                    *)
(***************************************************************************)
EXTENDS Integers, Sequences, FiniteSets, TLC

\* Bounds of the model.
MaxDocs == 3
MaxLen == 3
MaxCells == 6
NumTokens == 3
MaxMinDocs == 3
MaxNgrams == 2

VARIABLES
    files,              \* the word sequences tokenize gives for the files
    raw_docs,           \* the loader's copy, cleared as it is encoded
    word_to_id,         \* the dictionary: surface -> id
    id_to_word,         \* the dictionary: id -> surface (index + 1)
    docs,               \* the encoded corpus (read-only after load)
    min_docs,           \* --n
    ngrams,             \* --ngrams: seed length (GME), min_length (CPS)
    engine,             \* which back-end runs: "GME" or "CPS"
    mode,               \* MiningMode of PrefixSpanEngine::run
    g_stop_requested,   \* the process-wide stop flag
    pc,                 \* position of the engine
    candidates,         \* GME: candidates not yet visited by the loop
    cand,               \* GME: the candidate being extended
    processed,          \* GME: marked positions <<doc_id, pos>>
    results,            \* final_phrases / found_phrases
    rows,               \* the rows save_to_csv has written (freq, length)
    stack,              \* CPS: the activation records of mine_recursive
    current_prefix,     \* CPS: the prefix vector shared by the recursion
    enumeration,        \* history: GME: the order in which the pass that
                        \*   last extended cand enumerated next_word_occs
    just_emitted,       \* history: the last engine step appended a phrase
    stop_mark,          \* history: k when the flag was raised right after
                        \*   the k-th append, 0 when raised elsewhere, -1 unset
    stop_snapshot       \* history: results when the flag was raised

vars == <<files, raw_docs, word_to_id, id_to_word,
          docs, min_docs, ngrams, engine, mode, g_stop_requested, pc,
          candidates, cand, processed, results, rows, stack, current_prefix,
          enumeration, just_emitted, stop_mark, stop_snapshot>>

\* What mining only reads: the loaded corpus, its dictionary, the options.
dictVars == <<files, raw_docs, word_to_id, id_to_word>>
params == <<dictVars, docs, min_docs, ngrams, engine, mode>>
gmeVars == <<candidates, cand, processed, enumeration>>
cpsVars == <<stack, current_prefix>>
histVars == <<just_emitted, stop_mark, stop_snapshot>>

MODE_ALL == "ALL"
MODE_CLOSED == "CLOSED"
MODE_MAXIMAL == "MAXIMAL"

Tokens == 0 .. NumTokens - 1

\* ------------------------------------------------------------------
\* The corpus
\* ------------------------------------------------------------------

DocIds == 0 .. Len(docs) - 1
Doc(d) == docs[d + 1]
DocSize(d) == Len(docs[d + 1])
Tok(d, p) == docs[d + 1][p + 1]

RECURSIVE Flatten(_)
Flatten(ds) == IF ds = <<>> THEN <<>> ELSE Head(ds) \o Flatten(Tail(ds))

\* Ids are handed out 0, 1, 2, ... in order of first occurrence: a token id
\* is new only if it is the number of distinct ids seen before it.
FirstOccurrenceEncoded(ds) ==
    LET flat == Flatten(ds)
    IN  \A i \in 1 .. Len(flat) :
            flat[i] <= Cardinality({flat[j] : j \in 1 .. i - 1})

\* The corpora of the model: at most MaxDocs documents of at most MaxLen
\* tokens, the number of documents times the longest length at most
\* MaxCells, encoded as load_directory encodes them.
DocsOfLen(m) == UNION {[1 .. n -> Tokens] : n \in 0 .. m}
MaxLenFor(n) == IF n * MaxLen <= MaxCells THEN MaxLen ELSE MaxCells \div n
Corpora ==
    {ds \in UNION {[1 .. n -> DocsOfLen(MaxLenFor(n))] : n \in 0 .. MaxDocs} :
        FirstOccurrenceEncoded(ds)}

UniqueDocs(occs) == {o[1] : o \in occs}

\* ------------------------------------------------------------------
\* The loader: phase II of CorpusMiner::load_directory (both back-ends)
\* ------------------------------------------------------------------

\* The surface forms of the model, one per token id the bounds allow.
WordList == <<"foo", "bar", "baz", "qux", "quux", "corge", "grault">>
Words == {WordList[i + 1] : i \in Tokens}

\* The files the loader may be given, as tokenize leaves them.
FilesOfLen(m) == UNION {[1 .. n -> Words] : n \in 0 .. m}
FileSets == UNION {[1 .. n -> FilesOfLen(MaxLenFor(n))] : n \in 0 .. MaxDocs}

\* word_to_id.find(w) != word_to_id.end()
KnownWordNever(w2i, w) == FALSE
KnownWord(w2i, w) == w \in DOMAIN w2i

\* The body of the loop over the words of one document; st holds
\* word_to_id, id_to_word and the vector encoded.
EncodeWord(st, w) ==
    IF KnownWord(st.word_to_id, w)
    THEN [st EXCEPT !.encoded = Append(@, st.word_to_id[w])]
    ELSE LET new_id == Len(st.id_to_word)
         IN  [word_to_id |-> [x \in DOMAIN st.word_to_id \cup {w} |->
                                 IF x = w THEN new_id ELSE st.word_to_id[x]],
              id_to_word |-> Append(st.id_to_word, w),
              encoded |-> Append(st.encoded, new_id)]

RECURSIVE EncodeFrom(_, _, _)
EncodeFrom(words, k, st) ==
    IF k > Len(words) THEN st ELSE EncodeFrom(words, k + 1, EncodeWord(st, words[k]))

NoWords == [w \in {} |-> 0]

\* One pass of the loop over the documents: encode raw_docs[i], push the
\* encoded document, clear raw_docs[i].
LoadDocument ==
    /\ pc = "loading" /\ Len(docs) < Len(raw_docs)
    /\ LET i == Len(docs) + 1
           st == EncodeFrom(raw_docs[i], 1,
                            [word_to_id |-> word_to_id, id_to_word |-> id_to_word,
                             encoded |-> <<>>])
       IN  /\ word_to_id' = st.word_to_id
           /\ id_to_word' = st.id_to_word
           /\ docs' = Append(docs, st.encoded)
           /\ raw_docs' = [raw_docs EXCEPT ![i] = <<>>]
    /\ UNCHANGED <<files, min_docs, ngrams, engine, mode, g_stop_requested, pc,
                   candidates, cand, processed, results, rows, stack,
                   current_prefix, enumeration, just_emitted, stop_mark,
                   stop_snapshot>>

\* The loop over the documents is over: load_directory returns.
LoadReturn ==
    /\ pc = "loading" /\ Len(docs) = Len(raw_docs)
    /\ pc' = "loaded"
    /\ UNCHANGED <<dictVars, docs, min_docs, ngrams, engine, mode, g_stop_requested,
                   candidates, cand, processed, results, rows, stack,
                   current_prefix, enumeration, just_emitted, stop_mark,
                   stop_snapshot>>

\* The dictionary load_directory leaves for an encoded corpus ds, and the
\* files it was read from, up to the choice of the surface forms.
VocabularySizeOf(ds) == Cardinality({Flatten(ds)[i] : i \in 1 .. Len(Flatten(ds))})
Decoded(ds) == [i \in 1 .. Len(ds) |-> [j \in 1 .. Len(ds[i]) |-> WordList[ds[i][j] + 1]]]

\* The engines' read of the stop flag at their suspension points.
StopNeverSeen == FALSE
StopSeen == g_stop_requested

\* ------------------------------------------------------------------
\* The sinks: CorpusMiner::save_to_csv of the two back-ends
\* ------------------------------------------------------------------

\* A row, as far as the output order goes: the freq and length columns
\* (the phrase text and the sample of source files are left out).
Row(p) == [freq |-> p.support, length |-> Len(p.tokens)]

\* GME: the rows in the order of res.
save_to_csv(res) == [i \in 1 .. Len(res) |-> Row(res[i])]

\* CPS: the comparison of the sort.
SortsBefore(a, b) ==
    IF a.support # b.support THEN a.support > b.support
    ELSE Len(a.tokens) > Len(b.tokens)

\* The indices S of res as std::sort leaves them.  It is not stable:
\* phrases that compare equal come out in any order; they have the same
\* support and token count, so the rows are the same in each of these
\* orders, and the one taken here keeps them in the order of res.
RECURSIVE sorted_res(_, _)
sorted_res(res, S) ==
    IF S = {} THEN <<>>
    ELSE LET first == {j \in S : \A k \in S : ~SortsBefore(res[k], res[j])}
             i == CHOOSE j \in first : \A k \in first : j <= k
         IN  <<res[i]>> \o sorted_res(res, S \ {i})

prefixspan_save_to_csv(res) ==
    LET sorted == sorted_res(res, 1 .. Len(res))
    IN  [i \in 1 .. Len(sorted) |-> Row(sorted[i])]

\* ------------------------------------------------------------------
\* GME: CorpusMiner::mine of src/corpus_miner.cpp
\* ------------------------------------------------------------------

\* Start positions of the n-grams of document d (empty when the document
\* is shorter than n).
SeedStarts(d) ==
    IF DocSize(d) < ngrams THEN {} ELSE 0 .. DocSize(d) - ngrams

Ngram(d, p) == SubSeq(Doc(d), p + 1, p + ngrams)

SeedKeys == UNION {{Ngram(d, p) : p \in SeedStarts(d)} : d \in DocIds}

SeedOccs(key) ==
    UNION {{<<d, p>> : p \in {q \in SeedStarts(d) : Ngram(d, q) = key}} : d \in DocIds}

SeedCandidates ==
    {c \in {[tokens |-> k, occs |-> SeedOccs(k),
             support |-> Cardinality(UniqueDocs(SeedOccs(k)))] : k \in SeedKeys} :
        c.support >= min_docs}

NoPhrase == [tokens |-> <<>>, occs |-> {}, support |-> 0]

\* The occurrence vectors are filled in (doc_id, pos) order, which is the
\* order the freshness loop reads them in.
Before(a, b) == a[1] < b[1] \/ (a[1] = b[1] /\ a[2] < b[2])

InRange(o) == o[2] < DocSize(o[1])
Unmarked(o) == InRange(o) /\ o \notin processed

\* processed[o.doc_id][o.pos] is read past the end of the vector when an
\* occurrence starts at the document's end and no earlier occurrence has
\* already ended the loop.
FreshnessReadsPastEnd(c) ==
    \E o \in c.occs :
        /\ ~InRange(o)
        /\ \A f \in c.occs : Unmarked(f) => Before(o, f)

\* How the freshness loop can end: "skip" (every start position read as
\* marked), "extend" (one read as unmarked), or "crash".  A read past the
\* end of the vector yields an arbitrary byte or faults.
FreshnessOutcomes(c) ==
    IF FreshnessReadsPastEnd(c)
    THEN {"extend", "crash"} \cup
         (IF \E f \in c.occs : Unmarked(f) THEN {} ELSE {"skip"})
    ELSE IF \A o \in c.occs : o \in processed THEN {"skip"} ELSE {"extend"}

\* next_word_occs[w]: the occurrences of c that are followed by w.
NextPos(c, o) == o[2] + Len(c.tokens)
NextWordOccsClamped(c, w) ==
    {o \in c.occs :
        IF NextPos(c, o) < DocSize(o[1])
        THEN Tok(o[1], NextPos(c, o)) = w
        ELSE DocSize(o[1]) > 0 /\ Tok(o[1], DocSize(o[1]) - 1) = w}
NextWordOccs(c, w) ==
    {o \in c.occs : NextPos(c, o) < DocSize(o[1]) /\ Tok(o[1], NextPos(c, o)) = w}
NextWords(c) == {w \in Tokens : NextWordOccs(c, w) # {}}
NextSupport(c, w) == Cardinality(UniqueDocs(NextWordOccs(c, w)))

SetMax(S) == CHOOSE x \in S : \A y \in S : y <= x

\* max_support after the selection loop (0 when no word qualifies).
MaxSupport(c) ==
    LET q == {NextSupport(c, w) : w \in {v \in NextWords(c) : NextSupport(c, v) >= min_docs}}
    IN  IF q = {} THEN 0 ELSE SetMax(q)

\* The words best_word can end as: the comparison is >=, so the last word
\* enumerated among those of largest support wins, and the enumeration
\* order of the hash map is unspecified.
BestWords(c) ==
    {w \in NextWords(c) :
        NextSupport(c, w) >= min_docs /\ NextSupport(c, w) = MaxSupport(c)}

\* The orders in which the entries of a hash map with keys S may be
\* enumerated.
Enumerations(S) ==
    {order \in [1 .. Cardinality(S) -> S] : \A w \in S : \E k \in DOMAIN order : order[k] = w}

\* The selection loop over next_word_occs enumerated in the given order,
\* from its k-th entry on: best_word and max_support.
RECURSIVE SelectFrom(_, _, _, _)
SelectFrom(c, order, k, best) ==
    IF k > Len(order) THEN best
    ELSE LET support == NextSupport(c, order[k])
         IN  SelectFrom(c, order, k + 1,
                        IF support >= min_docs /\ support >= best.max_support
                        THEN [best_word |-> order[k], max_support |-> support]
                        ELSE best)

Selected(c, order) == SelectFrom(c, order, 1, [best_word |-> 0, max_support |-> 0])

Extended(c, w) ==
    [tokens |-> Append(c.tokens, w), occs |-> NextWordOccs(c, w),
     support |-> NextSupport(c, w)]

\* Positions marked for the final phrase c.
MarkedBy(c) ==
    UNION {{<<o[1], o[2] + i>> : i \in {j \in 0 .. Len(c.tokens) - 1 :
                                            o[2] + j < DocSize(o[1])}} : o \in c.occs}

\* Steps 1 and 2: seeds, filtering, sort.  std::sort compares supports
\* only and the seeds come out of a hash map, so candidates of equal
\* support may be visited in any order: the set holds the candidates not
\* yet visited and the loop takes any one of largest support.
GmeSeeds ==
    /\ pc = "start" /\ engine = "GME"
    /\ candidates' = SeedCandidates
    /\ processed' = {}
    /\ pc' = "loop"
    /\ just_emitted' = FALSE
    /\ UNCHANGED <<params, g_stop_requested, cand, results, rows, cpsVars,
                   enumeration, stop_mark, stop_snapshot>>

NextCandidates == {c \in candidates : \A o \in candidates : o.support <= c.support}

\* Top of the candidate loop: the stop check, the freshness check.
GmeNext ==
    /\ pc = "loop"
    /\ just_emitted' = FALSE
    /\ IF StopSeen \/ candidates = {}
       THEN /\ pc' = "done"
            /\ rows' = save_to_csv(results)
            /\ UNCHANGED <<candidates, cand, processed>>
       ELSE \E c \in NextCandidates :
              /\ candidates' = candidates \ {c}
              /\ processed' = processed
              /\ rows' = rows
              /\ \E outcome \in FreshnessOutcomes(c) :
                    /\ pc' = CASE outcome = "skip" -> "loop"
                               [] outcome = "extend" -> "expand"
                               [] OTHER -> "crashed"
                    /\ cand' = IF outcome = "extend" THEN c ELSE cand
    /\ UNCHANGED <<params, g_stop_requested, results, cpsVars,
                   enumeration, stop_mark, stop_snapshot>>

\* One pass of the while (true) loop: extend by the word the selection
\* loop ends with (the hash map's order is unspecified), or mark the final
\* phrase's positions and push it.
GmeExpand ==
    /\ pc = "expand"
    /\ IF MaxSupport(cand) > 0
       THEN /\ \E order \in Enumerations(NextWords(cand)) :
                 /\ cand' = Extended(cand, Selected(cand, order).best_word)
                 /\ enumeration' = order
            /\ just_emitted' = FALSE
            /\ UNCHANGED <<pc, processed, results>>
       ELSE /\ processed' = processed \cup MarkedBy(cand)
            /\ results' = Append(results, cand)
            /\ just_emitted' = TRUE
            /\ cand' = NoPhrase
            /\ enumeration' = <<>>
            /\ pc' = "loop"
    /\ UNCHANGED <<params, g_stop_requested, candidates, rows, cpsVars,
                   stop_mark, stop_snapshot>>

\* ------------------------------------------------------------------
\* CPS: PrefixSpanEngine of src/prefixspan/corpus_miner.cpp
\* ------------------------------------------------------------------

Projection(d, p, o) == [doc_id |-> d, pos |-> p, origin |-> o]

\* {i, j, j} for every position j of document i, documents in order.
DocStartOnly(d) == IF DocSize(d) = 0 THEN <<>> ELSE <<Projection(d, 0, 0)>>
DocProjections(d) == [j \in 1 .. DocSize(d) |-> Projection(d, j - 1, j - 1)]

RECURSIVE InitialDbFrom(_)
InitialDbFrom(d) ==
    IF d >= Len(docs) THEN <<>> ELSE DocProjections(d) \o InitialDbFrom(d + 1)

initial_db == InitialDbFrom(0)
initial_support == Cardinality({d \in DocIds : DocSize(d) > 0})

DbDocs(db) == {db[i].doc_id : i \in 1 .. Len(db)}

NoItems == [w \in Tokens |-> <<>>]

\* One entry of the scan: push the doc id unless it is the last one pushed.
DeliverAlways(items, proj) ==
    IF proj.pos < DocSize(proj.doc_id)
    THEN [items EXCEPT ![Tok(proj.doc_id, proj.pos)] = Append(@, proj.doc_id)]
    ELSE items
Deliver(items, proj) ==
    IF proj.pos < DocSize(proj.doc_id)
    THEN LET token == Tok(proj.doc_id, proj.pos)
         IN  IF items[token] = <<>> \/ items[token][Len(items[token])] # proj.doc_id
             THEN [items EXCEPT ![token] = Append(@, proj.doc_id)]
             ELSE items
    ELSE items

RECURSIVE DeliverFrom(_, _, _)
DeliverFrom(db, i, items) ==
    IF i > Len(db) THEN items ELSE DeliverFrom(db, i + 1, Deliver(items, db[i]))

\* item_supports after occ_delivery: token -> doc ids (<<>>: no entry).
occ_delivery(db) == DeliverFrom(db, 1, NoItems)

ItemKeys(items) == {w \in Tokens : items[w] # <<>>}

has_frequent_extension_strict(items) ==
    \E w \in ItemKeys(items) : Len(items[w]) > min_docs
has_frequent_extension(items) ==
    \E w \in ItemKeys(items) : Len(items[w]) >= min_docs

has_extension_with_same_support(items, current_support) ==
    \E w \in ItemKeys(items) :
        Len(items[w]) >= min_docs /\ Len(items[w]) = current_support

should_output(items, prefix, current_support) ==
    /\ Len(prefix) >= ngrams
    /\ \/ mode = MODE_ALL
       \/ mode = MODE_MAXIMAL /\ ~has_frequent_extension(items)
       \/ mode = MODE_CLOSED /\ ~has_extension_with_same_support(items, current_support)

\* The Phrase pushed for the prefix: its occs are the doc ids of db.
OutputPhrase(db, prefix, current_support) ==
    [tokens |-> prefix, occs |-> {<<d>> : d \in DbDocs(db)}, support |-> current_support]

Advances(proj, token) ==
    /\ proj.pos < DocSize(proj.doc_id)
    /\ Tok(proj.doc_id, proj.pos) = token
    /\ proj.pos + 1 < DocSize(proj.doc_id)

Advance(proj) == [proj EXCEPT !.pos = @ + 1]

next_db(db, token) ==
    LET kept == SelectSeq(db, LAMBDA proj : Advances(proj, token))
    IN  [i \in 1 .. Len(kept) |-> Advance(kept[i])]

\* The entries of item_supports on which the expansion loop calls
\* mine_recursive.  On the others a pass changes nothing (the support test
\* fails, or the token is pushed and popped around an empty next_db), so
\* the model does not step through them.
Recursing(db, items) ==
    {w \in ItemKeys(items) : Len(items[w]) >= min_docs /\ next_db(db, w) # <<>>}

Frame(db, support) ==
    [db |-> db, current_support |-> support, st |-> "entry",
     item_supports |-> NoItems, todo |-> {}]

Top == stack[Len(stack)]
Pop == SubSeq(stack, 1, Len(stack) - 1)
SetTop(f) == [stack EXCEPT ![Len(stack)] = f]

\* CorpusMiner::mine and PrefixSpanEngine::run up to the root call.
CpsRun ==
    /\ pc = "start" /\ engine = "CPS"
    /\ IF Len(docs) = 0
       THEN pc' = "done" /\ stack' = stack
       ELSE pc' = "mining" /\ stack' = <<Frame(initial_db, initial_support)>>
    /\ current_prefix' = <<>>
    /\ just_emitted' = FALSE
    /\ UNCHANGED <<params, g_stop_requested, gmeVars, results, rows,
                   stop_mark, stop_snapshot>>

ReturnWithoutPop ==
    /\ stack' = Pop
    /\ pc' = IF Len(stack) = 1 THEN "done" ELSE pc
    /\ current_prefix' = current_prefix
    /\ rows' = IF Len(stack) = 1 THEN prefixspan_save_to_csv(results) ELSE rows
\* What a return of mine_recursive leaves: the caller pops the token it
\* pushed; the root call returns to run, and mine goes on to save_to_csv.
Return ==
    /\ stack' = Pop
    /\ IF Len(stack) = 1
       THEN /\ pc' = "done" /\ current_prefix' = current_prefix
            /\ rows' = prefixspan_save_to_csv(results)
       ELSE /\ pc' = pc /\ rows' = rows
            /\ current_prefix' = SubSeq(current_prefix, 1, Len(current_prefix) - 1)

\* Entry of mine_recursive up to the expansion loop: the stop check,
\* occ_delivery, the output decision and the push.
CpsEnter ==
    /\ pc = "mining" /\ Top.st = "entry"
    /\ IF StopSeen
       THEN Return /\ results' = results /\ just_emitted' = FALSE
       ELSE LET items == occ_delivery(Top.db)
                out == should_output(items, current_prefix, Top.current_support)
            IN  /\ results' = IF out
                              THEN Append(results, OutputPhrase(Top.db, current_prefix,
                                                                Top.current_support))
                              ELSE results
                /\ just_emitted' = out
                /\ stack' = SetTop([Top EXCEPT !.st = "loop", !.item_supports = items,
                                               !.todo = Recursing(Top.db, items)])
                /\ UNCHANGED <<pc, current_prefix, rows>>
    /\ UNCHANGED <<params, g_stop_requested, gmeVars, stop_mark, stop_snapshot>>

\* One pass of the expansion loop that recurses, over any such entry of
\* item_supports not yet visited (the hash map's order is unspecified).
CpsExpand ==
    /\ pc = "mining" /\ Top.st = "loop" /\ Top.todo # {}
    /\ \E token \in Top.todo :
         /\ current_prefix' = Append(current_prefix, token)
         /\ stack' = Append(SetTop([Top EXCEPT !.todo = @ \ {token}]),
                            Frame(next_db(Top.db, token), Len(Top.item_supports[token])))
    /\ just_emitted' = FALSE
    /\ UNCHANGED <<params, g_stop_requested, pc, gmeVars, results, rows,
                   stop_mark, stop_snapshot>>

\* The expansion loop is over: mine_recursive returns.
CpsReturn ==
    /\ pc = "mining" /\ Top.st = "loop" /\ Top.todo = {}
    /\ Return
    /\ just_emitted' = FALSE
    /\ UNCHANGED <<params, g_stop_requested, gmeVars, results,
                   stop_mark, stop_snapshot>>

\* ------------------------------------------------------------------
\* The stop flag, raised by the signal handler at any moment
\* ------------------------------------------------------------------

RaiseStop ==
    /\ ~g_stop_requested
    /\ pc \notin {"done", "crashed"}
    /\ g_stop_requested' = TRUE
    /\ stop_mark' = IF just_emitted THEN Len(results) ELSE 0
    /\ stop_snapshot' = results
    /\ UNCHANGED <<params, pc, gmeVars, cpsVars, results, rows, just_emitted>>

Init ==
    /\ docs \in Corpora
    /\ files = Decoded(docs)
    /\ raw_docs = [i \in 1 .. Len(docs) |-> <<>>]
    /\ id_to_word = [i \in 1 .. VocabularySizeOf(docs) |-> WordList[i]]
    /\ word_to_id = [w \in {WordList[i] : i \in 1 .. VocabularySizeOf(docs)} |->
                        CHOOSE t \in Tokens : WordList[t + 1] = w]
    /\ min_docs \in 0 .. MaxMinDocs
    /\ ngrams \in 0 .. MaxNgrams
    /\ engine \in {"GME", "CPS"}
    /\ mode \in IF engine = "GME" THEN {MODE_CLOSED}
                ELSE {MODE_ALL, MODE_CLOSED, MODE_MAXIMAL}
    /\ g_stop_requested = FALSE
    /\ pc = "start"
    /\ candidates = {}
    /\ cand = NoPhrase
    /\ processed = {}
    /\ results = <<>>
    /\ rows = <<>>
    /\ stack = <<>>
    /\ current_prefix = <<>>
    /\ enumeration = <<>>
    /\ just_emitted = FALSE
    /\ stop_mark = -1
    /\ stop_snapshot = <<>>

Next ==
    \/ GmeSeeds
    \/ GmeNext
    \/ GmeExpand
    \/ CpsRun
    \/ CpsEnter
    \/ CpsExpand
    \/ CpsReturn
    \/ RaiseStop

Spec == Init /\ [][Next]_vars

\* A run of mine on which the stop flag is never raised.
Mine ==
    \/ GmeSeeds
    \/ GmeNext
    \/ GmeExpand
    \/ CpsRun
    \/ CpsEnter
    \/ CpsExpand
    \/ CpsReturn

RunSpec == Init /\ [][Mine]_vars

\* The loader alone, from the files to the encoded corpus.
LoadInit ==
    /\ files \in FileSets
    /\ raw_docs = files
    /\ word_to_id = NoWords
    /\ id_to_word = <<>>
    /\ docs = <<>>
    /\ min_docs = 0
    /\ ngrams = 0
    /\ engine = "GME"
    /\ mode = MODE_CLOSED
    /\ g_stop_requested = FALSE
    /\ pc = "loading"
    /\ candidates = {}
    /\ cand = NoPhrase
    /\ processed = {}
    /\ results = <<>>
    /\ rows = <<>>
    /\ stack = <<>>
    /\ current_prefix = <<>>
    /\ enumeration = <<>>
    /\ just_emitted = FALSE
    /\ stop_mark = -1
    /\ stop_snapshot = <<>>

LoadNext ==
    \/ LoadDocument
    \/ LoadReturn

LoadSpec == LoadInit /\ [][LoadNext]_vars

\* ------------------------------------------------------------------
\* Reference notions the properties are stated against
\* ------------------------------------------------------------------

\* s occurs in document d as a contiguous run starting at position p.
OccursAt(s, d, p) ==
    /\ p + Len(s) <= DocSize(d)
    /\ \A i \in 0 .. Len(s) - 1 : Tok(d, p + i) = s[i + 1]

\* The documents that contain s as a contiguous run.
DocsContaining(s) == {d \in DocIds : \E p \in 0 .. DocSize(d) : OccursAt(s, d, p)}
TrueDF(s) == Cardinality(DocsContaining(s))

\* The dictionary: the token ids that occur in the corpus.
Vocabulary == UNION {{Tok(d, p) : p \in 0 .. DocSize(d) - 1} : d \in DocIds}

\* The non-empty contiguous runs of the corpus.
Runs ==
    UNION {UNION {{SubSeq(Doc(d), p + 1, p + n) : n \in 1 .. DocSize(d) - p}
                    : p \in 0 .. DocSize(d) - 1} : d \in DocIds}

Emitted == {results[i] : i \in 1 .. Len(results)}
TimesEmitted(s) == Cardinality({i \in 1 .. Len(results) : results[i].tokens = s})
Finished == pc = "done" /\ ~g_stop_requested

\* ------------------------------------------------------------------
\* Properties
\* ------------------------------------------------------------------

\* C1: every phrase in the result set has support equal to the number of
\* distinct doc ids among the occurrences stored in the same record.
SupportIsDistinctDocsOfOccs ==
    \A r \in Emitted : r.support = Cardinality(UniqueDocs(r.occs))

\* C2: CPS in mode ALL, run to completion, emits every contiguous run of
\* length >= L that occurs in at least min_docs documents, exactly once,
\* runs that always end at their document's last token included.
CpsAllComplete ==
    (Finished /\ engine = "CPS" /\ mode = MODE_ALL) =>
        \A s \in Runs :
            (Len(s) >= ngrams /\ TrueDF(s) >= min_docs) => TimesEmitted(s) = 1

\* The corpus of the threshold scenario: k documents "a b", then "a c".
ThresholdCorpus(k) == [i \in 1 .. k + 1 |-> IF i <= k THEN <<0, 1>> ELSE <<0, 2>>]

\* C3: on k documents "a b" plus one "a c" with L = 2, GME and CPS as
\* CorpusMiner::mine runs it (CLOSED) emit exactly "a b" when min_docs = k
\* and nothing when min_docs = k + 1.  (Read for k >= 2: with k = 1, "a c"
\* reaches min_docs = 1 as well.)
ThresholdBoundary ==
    \A k \in 2 .. MaxDocs - 1 :
        (Finished /\ docs = ThresholdCorpus(k) /\ ngrams = 2 /\ mode = MODE_CLOSED) =>
            /\ min_docs = k => [i \in 1 .. Len(results) |-> results[i].tokens] = << <<0, 1>> >>
            /\ min_docs = k + 1 => results = <<>>

\* C4: the support recorded in every emitted phrase is the number of
\* documents that contain its token sequence as a contiguous run.
SupportIsTrueDF ==
    \A r \in Emitted : r.support = TrueDF(r.tokens)

\* C5: every phrase in the result set has support >= min_docs.
SupportFloor ==
    \A r \in Emitted : r.support >= min_docs

\* Phrase r with its occurrences (d, p): each lies inside its document and
\* spells the phrase's tokens.
OccurrencesContiguous(r) ==
    \A o \in r.occs : OccursAt(r.tokens, o[1], o[2])

\* The prefix of the j-th activation of mine_recursive on the stack.
PrefixOfFrame(j) == SubSeq(current_prefix, 1, j - 1)

ProjectionContiguous(proj, prefix) ==
    /\ proj.pos = proj.origin + Len(prefix)
    /\ OccursAt(prefix, proj.doc_id, proj.origin)

\* C6: in GME every occurrence (d, p) of the current candidate and of every
\* emitted phrase satisfies p + |tokens| <= |docs[d]| and spells the
\* tokens; in CPS every continuation point (d, pos, origin) of a projected
\* database at prefix pi has pos = origin + |pi| and docs[d] spells pi
\* from origin.
Contiguity ==
    /\ engine = "GME" =>
          /\ OccurrencesContiguous(cand)
          /\ \A r \in Emitted : OccurrencesContiguous(r)
    /\ engine = "CPS" =>
          \A j \in 1 .. Len(stack) :
              \A i \in 1 .. Len(stack[j].db) :
                  ProjectionContiguous(stack[j].db[i], PrefixOfFrame(j))

\* C7: no phrase emitted by CPS in CLOSED mode has a one-token rightward
\* extension whose document frequency equals the phrase's support.
ClosedSound ==
    (engine = "CPS" /\ mode = MODE_CLOSED) =>
        \A r \in Emitted : \A w \in Vocabulary :
            TrueDF(Append(r.tokens, w)) # r.support

\* C8: no phrase emitted by CPS in MAXIMAL mode has a one-token rightward
\* extension of document frequency >= min_docs.
MaximalSound ==
    (engine = "CPS" /\ mode = MODE_MAXIMAL) =>
        \A r \in Emitted : \A w \in Vocabulary :
            TrueDF(Append(r.tokens, w)) < min_docs

\* C6 is exercised: GME holds a candidate it has extended past its seed,
\* with several occurrences, after emitting a phrase.
ContiguityWitness ==
    /\ engine = "GME" /\ pc = "expand"
    /\ Len(cand.tokens) > ngrams /\ ngrams >= 1
    /\ Cardinality(cand.occs) >= 2
    /\ results # <<>>

\* C8 is exercised: a non-empty MAXIMAL phrase is emitted although some
\* extension of it occurs in the corpus (in fewer than min_docs documents).
MaximalWitness ==
    /\ engine = "CPS" /\ mode = MODE_MAXIMAL
    /\ \E r \in Emitted :
          /\ r.tokens # <<>>
          /\ \E w \in Vocabulary : TrueDF(Append(r.tokens, w)) >= 1

\* C9: once the stop flag is raised right after the k-th append (k >= 1),
\* the engine does not fault and the result set stays exactly the first k
\* phrases, unmodified, up to and including its return.
StopKeepsFirstK ==
    stop_mark >= 1 =>
        /\ pc # "crashed"
        /\ Len(results) = stop_mark
        /\ results = stop_snapshot

\* C9 is exercised: GME has returned after a stop raised right after its
\* first phrase, leaving a candidate it would otherwise have extended.
StopWitness ==
    /\ engine = "GME" /\ pc = "done" /\ stop_mark = 1
    /\ \E c \in candidates : \E o \in c.occs : Unmarked(o)

\* ------------------------------------------------------------------
\* Reference runs in one fixed enumeration order: candidates of equal
\* support by token sequence, next words and siblings by token id.
\* ------------------------------------------------------------------

SetMin(S) == CHOOSE x \in S : \A y \in S : x <= y

\* a sorts before b (sequences of equal length, by the first difference).
SeqLess(a, b) ==
    \E i \in 1 .. Len(a) : a[i] < b[i] /\ \A j \in 1 .. i - 1 : a[j] = b[j]

FirstCandidate(cs) ==
    CHOOSE c \in cs : \A o \in cs \ {c} :
        c.support > o.support \/ (c.support = o.support /\ SeqLess(c.tokens, o.tokens))

RECURSIVE GmeExtendAll(_)
GmeExtendAll(c) ==
    IF MaxSupport(c) > 0 THEN GmeExtendAll(Extended(c, SetMin(BestWords(c)))) ELSE c

RECURSIVE GmeRunFrom(_, _, _)
GmeRunFrom(cs, marked, out) ==
    IF cs = {} THEN out
    ELSE LET c == FirstCandidate(cs)
         IN  IF c.occs \subseteq marked
             THEN GmeRunFrom(cs \ {c}, marked, out)
             ELSE LET f == GmeExtendAll(c)
                  IN  GmeRunFrom(cs \ {c}, marked \cup MarkedBy(f), Append(out, f))

GmeReference == GmeRunFrom(SeedCandidates, {}, <<>>)

RECURSIVE CpsVisit(_, _, _)
RECURSIVE CpsChildren(_, _, _, _)
CpsVisit(db, prefix, support) ==
    LET items == occ_delivery(db)
        own == IF should_output(items, prefix, support)
               THEN <<OutputPhrase(db, prefix, support)>> ELSE <<>>
    IN  own \o CpsChildren(db, prefix, items, 0)
CpsChildren(db, prefix, items, w) ==
    IF w >= NumTokens THEN <<>>
    ELSE LET child == next_db(db, w)
         IN  (IF Len(items[w]) >= min_docs /\ items[w] # <<>> /\ child # <<>>
              THEN CpsVisit(child, Append(prefix, w), Len(items[w]))
              ELSE <<>>) \o CpsChildren(db, prefix, items, w + 1)

CpsReference ==
    IF Len(docs) = 0 THEN <<>> ELSE CpsVisit(initial_db, <<>>, initial_support)

Reference == IF engine = "GME" THEN GmeReference ELSE CpsReference

TokensAndSupports(ps) == [i \in 1 .. Len(ps) |-> <<ps[i].tokens, ps[i].support>>]
Range(ps) == {ps[i] : i \in 1 .. Len(ps)}

\* C10 as stated: a complete run emits the same sequence of phrases
\* (tokens, supports, order) whatever the order in which equal-support
\* candidates are visited and next words and siblings are enumerated, so
\* it emits the sequence of the run in the reference order.  (Stated for
\* L >= 1, where no read of the processed map is out of range.)
OrderIndependent ==
    (Finished /\ ngrams >= 1) =>
        TokensAndSupports(results) = TokensAndSupports(Reference)

\* C10 as amended: a complete CPS run emits the same phrases, each as
\* often, whatever the order in which siblings are enumerated.
CpsSetOrderIndependent ==
    (Finished /\ engine = "CPS") =>
        LET reference == CpsReference
        IN  /\ Len(results) = Len(reference)
            /\ Emitted = Range(reference)
            /\ \A r \in Emitted : TimesEmitted(r.tokens) = 1

\* C10 is exercised: a complete CPS run whose phrases come in another
\* order than the reference run's.
CpsOrderWitness ==
    /\ Finished /\ engine = "CPS"
    /\ Len(results) >= 2
    /\ results # CpsReference

\* ------------------------------------------------------------------
\* The dictionary
\* ------------------------------------------------------------------

\* The distinct elements of flat in the order of their first occurrence.
FirstOccurrences(flat) ==
    LET firsts == {i \in 1 .. Len(flat) : \A j \in 1 .. i - 1 : flat[j] # flat[i]}
    IN  [k \in 1 .. Cardinality(firsts) |->
            flat[CHOOSE i \in firsts : Cardinality({j \in firsts : j < i}) = k - 1]]

\* The files encoded so far.
LoadedFiles == SubSeq(files, 1, Len(docs))

DecodedDoc(d) == [j \in 1 .. DocSize(d) |-> id_to_word[Tok(d, j - 1) + 1]]

\* C11: after any number of documents is encoded, word_to_id and
\* id_to_word are inverse to each other, the ids are 0 .. |V| - 1 in the
\* order of first occurrence over the documents in load order ("foo bar",
\* "bar foo" gives foo = 0, bar = 1), every stored token id is below
\* |id_to_word|, and each encoded document decodes to its file's words.
DictionaryEncoding ==
    /\ DOMAIN word_to_id = {id_to_word[i] : i \in 1 .. Len(id_to_word)}
    /\ \A w \in DOMAIN word_to_id :
          /\ word_to_id[w] \in 0 .. Len(id_to_word) - 1
          /\ id_to_word[word_to_id[w] + 1] = w
    /\ \A i \in 1 .. Len(id_to_word) : word_to_id[id_to_word[i]] = i - 1
    /\ id_to_word = FirstOccurrences(Flatten(LoadedFiles))
    /\ FirstOccurrenceEncoded(docs)
    /\ \A d \in DocIds :
          /\ \A p \in 0 .. DocSize(d) - 1 : Tok(d, p) < Len(id_to_word)
          /\ DecodedDoc(d) = files[d + 1]
    /\ (pc = "loaded" /\ files = << <<"foo", "bar">>, <<"bar", "foo">> >>) =>
          word_to_id["foo"] = 0 /\ word_to_id["bar"] = 1

\* C11 is exercised: the loader has returned from documents that share a
\* word first seen in an earlier document, after an empty document.
DictionaryWitness ==
    /\ pc = "loaded" /\ Len(docs) = 3
    /\ files[1] = <<>> /\ Len(id_to_word) >= 2
    /\ docs[2] # <<>> /\ Len(docs[3]) >= 2
    /\ docs[3][1] = 1
    /\ \E p \in 1 .. Len(docs[3]) : docs[3][p] = 0

\* ------------------------------------------------------------------
\* Empty documents
\* ------------------------------------------------------------------

EmptyDocs == {d \in DocIds : DocSize(d) = 0}

\* The candidates and phrases an engine holds.
PhrasesHeld == candidates \cup {cand} \cup Emitted

\* Phrase c neither lists nor counts an empty document.
NoEmptyDocIn(c) ==
    /\ \A o \in c.occs : o[1] \notin EmptyDocs
    /\ c.support <= Cardinality(DocsContaining(c.tokens) \ EmptyDocs)

\* C12: on a corpus with empty documents, for any min_docs >= 0 and L >= 0,
\* no read of a document or of the processed map is at a position >= the
\* document's length (GME: the freshness loop of the candidate visited
\* next; CPS: the continuation points occ_delivery reads), and no empty
\* document is listed in the occurrences or counted in the support of a
\* candidate or an emitted phrase.
EmptyDocsTakeNoPart ==
    EmptyDocs # {} =>
        /\ pc # "crashed"
        /\ (pc = "loop" /\ ~StopSeen) =>
              \A c \in NextCandidates : ~FreshnessReadsPastEnd(c)
        /\ \A j \in 1 .. Len(stack) : \A i \in 1 .. Len(stack[j].db) :
              stack[j].db[i].pos < DocSize(stack[j].db[i].doc_id)
        /\ \A c \in PhrasesHeld : NoEmptyDocIn(c)

\* ------------------------------------------------------------------
\* The order of the output
\* ------------------------------------------------------------------

\* Row a may stand before row b: larger support, or equal support and at
\* least as many tokens.
InOutputOrder(a, b) ==
    a.freq > b.freq \/ (a.freq = b.freq /\ a.length >= b.length)

\* C13: for either back-end, the rows save_to_csv writes are sorted by
\* support descending and, among equal supports, by token count
\* descending.
RowsSorted ==
    \A i \in 1 .. Len(rows) : \A j \in i + 1 .. Len(rows) :
        InOutputOrder(rows[i], rows[j])

\* ------------------------------------------------------------------
\* The initial projected database
\* ------------------------------------------------------------------

\* run has just called mine_recursive on the initial database.
RootCalled == engine = "CPS" /\ Len(stack) = 1 /\ Top.st = "entry"
RootDb == stack[1].db
TimesInRootDb(proj) == Cardinality({i \in 1 .. Len(RootDb) : RootDb[i] = proj})

\* C14 as stated: the database of the root call holds exactly one
\* continuation point (d, 0) for every non-empty document d and nothing
\* else.
RootDbHoldsDocStartsOnly ==
    RootCalled =>
        /\ \A d \in DocIds \ EmptyDocs : TimesInRootDb(Projection(d, 0, 0)) = 1
        /\ \A i \in 1 .. Len(RootDb) : RootDb[i].pos = 0

\* C14 as amended: the database of the root call holds exactly one
\* continuation point (d, j), with origin j, for every position j of every
\* non-empty document d, in ascending (d, j) order, and nothing else
\* (nothing for an empty document).
RootDbHoldsEveryPosition ==
    RootCalled =>
        /\ \A d \in DocIds : \A j \in 0 .. DocSize(d) - 1 :
              TimesInRootDb(Projection(d, j, j)) = 1
        /\ \A i \in 1 .. Len(RootDb) :
              /\ RootDb[i].doc_id \in DocIds \ EmptyDocs
              /\ RootDb[i].pos \in 0 .. DocSize(RootDb[i].doc_id) - 1
              /\ RootDb[i].origin = RootDb[i].pos
        /\ \A i \in 1 .. Len(RootDb) - 1 :
              Before(<<RootDb[i].doc_id, RootDb[i].pos>>,
                     <<RootDb[i + 1].doc_id, RootDb[i + 1].pos>>)

\* C14 is exercised: the root call is entered on a corpus with an empty
\* document and a document of several tokens.
RootDbWitness ==
    /\ RootCalled
    /\ EmptyDocs # {}
    /\ \E d \in DocIds : DocSize(d) >= 2

\* ------------------------------------------------------------------
\* The GME extension step
\* ------------------------------------------------------------------

\* The largest distinct-document support among the tokens that follow c.
TopSupport(c) == SetMax({NextSupport(c, w) : w \in NextWords(c)})

\* The token of largest support that the given order enumerates first.
FirstBest(c, order) ==
    order[SetMin({k \in DOMAIN order : NextSupport(c, order[k]) = TopSupport(c)})]

\* C15: an extension step takes, among the tokens that follow the phrase
\* at some occurrence, the one of largest distinct-document support, the
\* first enumerated among several of that support; if that support is
\* >= min_docs the phrase is extended by it (occurrences those followed by
\* it, support its distinct-document count), otherwise extension stops and
\* the phrase is pushed.
ExtensionPicksFirstBest ==
    [][(pc = "expand" /\ cand' # cand) =>
          IF NextWords(cand) # {} /\ TopSupport(cand) >= min_docs
          THEN /\ pc' = "expand"
               /\ cand' = Extended(cand, FirstBest(cand, enumeration'))
          ELSE /\ pc' = "loop"
               /\ results' = Append(results, cand)]_vars

\* ------------------------------------------------------------------
\* The GME freshness gate
\* ------------------------------------------------------------------

\* The candidate a step of the candidate loop has reached.
Reached == CHOOSE c \in candidates : c \notin candidates'

\* Every position p .. p + |tokens| - 1 of every occurrence (d, p) of c.
PositionsOf(c) ==
    UNION {{<<o[1], o[2] + i>> : i \in 0 .. Len(c.tokens) - 1} : o \in c.occs}

\* C16: a candidate reached by the loop is skipped (not extended, nothing
\* emitted, the processed map unchanged) iff the start position of every
\* one of its seed occurrences is marked; otherwise it is extended, and
\* when its extension ends every position of every occurrence of the
\* final phrase is marked and the phrase is emitted.  No step unmarks a
\* position.
FreshnessGate ==
    [][/\ processed \subseteq processed'
       /\ (pc = "loop" /\ candidates' # candidates) =>
             /\ processed' = processed /\ results' = results
             /\ IF \A o \in Reached.occs : o \in processed
                THEN pc' = "loop" /\ cand' = cand
                ELSE pc' = "expand" /\ cand' = Reached
       /\ (pc = "expand" /\ pc' # "expand") =>
             /\ pc' = "loop"
             /\ processed' = processed \cup PositionsOf(cand)
             /\ results' = Append(results, cand)]_vars

\* ------------------------------------------------------------------
\* CPS occurrence delivery
\* ------------------------------------------------------------------

\* mine_recursive has just been entered on the database Top.db.
Entered == engine = "CPS" /\ pc = "mining" /\ Top.st = "entry"

\* The documents with token w at some continuation point of db.
DocsContinuingWith(db, w) ==
    {db[i].doc_id : i \in {k \in 1 .. Len(db) :
        db[k].pos < DocSize(db[k].doc_id) /\ Tok(db[k].doc_id, db[k].pos) = w}}

\* C17: every projected database the recursion is entered on lists its
\* continuation points in non-decreasing doc_id order, and the list
\* occ_delivery builds for each token w holds each doc id at most once
\* and as many ids as there are documents with w at a continuation point.
DeliveryCountsDistinctDocs ==
    Entered =>
        /\ \A i \in 1 .. Len(Top.db) - 1 : Top.db[i].doc_id <= Top.db[i + 1].doc_id
        /\ LET item_supports == occ_delivery(Top.db)
           IN  \A w \in Tokens :
                 LET ids == item_supports[w]
                 IN  /\ \A a, b \in 1 .. Len(ids) : ids[a] = ids[b] => a = b
                     /\ Len(ids) = Cardinality(DocsContinuingWith(Top.db, w))

\* C17 is exercised: a database below the root with two documents, one of
\* which has the same token at two of its continuation points.
DeliveryWitness ==
    /\ Entered /\ Len(stack) >= 2
    /\ Cardinality(DbDocs(Top.db)) >= 2
    /\ \E a, b \in 1 .. Len(Top.db) :
          /\ a # b /\ Top.db[a].doc_id = Top.db[b].doc_id
          /\ Tok(Top.db[a].doc_id, Top.db[a].pos) = Tok(Top.db[b].doc_id, Top.db[b].pos)

\* ------------------------------------------------------------------
\* Termination
\* ------------------------------------------------------------------

LongestDoc == SetMax({0} \cup {DocSize(d) : d \in DocIds})

\* A measure of the work a run has left, 0 when it has finished.
\* GME: the candidates not yet visited, each worth more than any extension
\* loop, plus the extensions the current loop may still make.
GmeUnit == LongestDoc + 2
GmeRank ==
    CASE pc = "start" -> (Cardinality(SeedCandidates) + 1) * GmeUnit + 2
      [] pc = "loop" -> Cardinality(candidates) * GmeUnit + 1
      [] pc = "expand" ->
            Cardinality(candidates) * GmeUnit + 2 + LongestDoc - Len(cand.tokens)
      [] OTHER -> 0

\* CPS: the calls on the stack, a call worth more than all the calls it
\* may still make: a call not yet past its entry, or the entries of
\* item_supports its loop has still to recurse on.
CpsBase == 2 * NumTokens + 4
CpsDepth == LongestDoc + 1
FrameUnits(f) == IF f.st = "entry" THEN 2 * NumTokens + 2 ELSE 2 * Cardinality(f.todo) + 1
RECURSIVE StackRank(_)
StackRank(j) ==
    IF j > Len(stack) THEN 0
    ELSE FrameUnits(stack[j]) * CpsBase ^ (CpsDepth - j) + StackRank(j + 1)
CpsRank ==
    CASE pc = "start" -> CpsBase ^ CpsDepth
      [] pc = "mining" -> StackRank(1)
      [] OTHER -> 0

Rank == IF engine = "GME" THEN GmeRank ELSE CpsRank

\* The run is at a point of the code from which it goes on: the guards of
\* the steps of Mine.
CanStep ==
    \/ pc = "start"
    \/ pc = "loop"
    \/ pc = "expand"
    \/ pc = "mining" /\ stack # <<>>

\* C18: with the stop flag never raised, the run finishes: while it has
\* not finished a step can be taken, and every step leaves less work, so
\* the steps run out (the engine is one sequential thread that keeps
\* running: a step that can be taken is taken).  A GME candidate of seed length L is extended at
\* most (longest document length - L) times, and a candidate the loop has
\* visited is not visited again; the CPS recursion is never deeper (calls
\* below the root) than the longest document is long, and every call
\* returns, the root's included.
Termination ==
    /\ [](pc = "done" \/ CanStep)
    /\ [](Rank >= 0)
    /\ [][Rank' < Rank]_vars
    /\ [](pc = "expand" => Len(cand.tokens) - ngrams <= LongestDoc - ngrams)
    /\ [][pc # "start" => candidates' \subseteq candidates]_vars
    /\ [](Len(stack) - 1 <= LongestDoc)
    /\ [](pc = "done" => stack = <<>>)

====
